---- MODULE Spec2Model ----
(***************************************************************************)
(* Two-way S3 bucket replication (src/s3_rep.py).                          *)
(*                                                                         *)
(* The two buckets, the snapshot object (replication_state.json) and the   *)
(* progress log object (replication.log.json) held in each bucket are the  *)
(* durable state.  One run of replicate_resilient is a sequence of steps:  *)
(* the reads before the loop, one copy or delete per key, the checkpoint   *)
(* after it, the rebuild and save, the removal of the log.  Every S3 call  *)
(* of a step may raise ClientError, and the process may be killed between  *)
(* any two steps and started again.  A kill between the two puts of one    *)
(* function leaves the buckets as a failure of the second put followed by  *)
(* a kill does.                                                            *)
(***************************************************************************)
EXTENDS Integers, Sequences, FiniteSets, TLC

\* ------------------------------------------------------------ bounds
MaxRuns == 2        \* invocations of replicate_resilient in one behaviour
MaxFaults == 2      \* S3 calls that raise ClientError in one behaviour

\* user object keys, in their sorted() order
Keys == {1, 2}

PRIMARY_BUCKET == "primary"
SECONDARY_BUCKET == "secondary"
Buckets == <<PRIMARY_BUCKET, SECONDARY_BUCKET>>
Replicas == {PRIMARY_BUCKET, SECONDARY_BUCKET}
Other(r) == IF r = PRIMARY_BUCKET THEN SECONDARY_BUCKET ELSE PRIMARY_BUCKET

\* An absent object is the empty sequence, a stored one a one-element sequence.
NoObj == << >>
Obj(v) == << v >>

\* A dict is a function whose domain is its key set.
EmptyDict == [k \in {} |-> 0]
DictPut(d, k, v) == [x \in (DOMAIN d) \cup {k} |-> IF x = k THEN v ELSE d[x]]
DictDel(d, k) == [x \in (DOMAIN d) \ {k} |-> d[x]]
\* dict.get(key, "") on modification times: "" sorts below every timestamp
GetTime(d, k) == IF k \in DOMAIN d THEN d[k] ELSE 0

InList(x, s) == \E i \in 1..Len(s) : s[i] = x

RECURSIVE SortedSeq(_)
SortedSeq(S) ==
  IF S = {} THEN << >>
  ELSE LET m == CHOOSE x \in S : \A y \in S : x <= y
       IN <<m>> \o SortedSeq(S \ {m})

VARIABLES
  files,        \* files[r]: the user objects of bucket r, key -> LastModified
  stateObj,     \* stateObj[r]: the STATE_KEY object of bucket r
  logObj,       \* logObj[r]: the LOG_KEY object of bucket r
  pc,           \* position of the process
  state,        \* replicate_resilient: state
  completed_in_prior_run,
  completed_this_run,
  primary_files,
  secondary_files,
  todo,         \* the keys of the for loop not yet visited, in order
  final_primary_files,
  final_secondary_files,
  runs,         \* runs started; also the clock read by now()
  budget,       \* ClientErrors the environment may still raise
  hist          \* observations of the current run and of the behaviour

vars == <<files, stateObj, logObj, pc, state, completed_in_prior_run,
          completed_this_run, primary_files, secondary_files, todo,
          final_primary_files, final_secondary_files, runs, budget, hist>>

durable == <<files, stateObj, logObj>>
locals == <<state, completed_in_prior_run, completed_this_run, primary_files,
            secondary_files, todo, final_primary_files, final_secondary_files>>

\* now(): one clock reading per run, later runs read later times
now == runs + 1

At(a) == [at |-> a]

\* ------------------------------------------------------------ load_state
\* line 38, the comparison of last_updated
\* mutant: the comparison is turned round and the older copy wins
NewerCandidate_Older(candidate, cur) == candidate.last_updated < cur.last_updated

NewerCandidate(candidate, cur) == candidate.last_updated > cur.last_updated

\* one iteration of the loop of load_state over a bucket whose get_object
\* raises ClientError when the bucket is in failing
LoadStateStep(cur, bucket, objs, failing) ==
  IF bucket \in failing \/ objs[bucket] = NoObj
  THEN cur
  ELSE LET candidate == objs[bucket][1]
       IN IF cur = NoObj \/ NewerCandidate(candidate, cur[1])
          THEN Obj(candidate)
          ELSE cur

load_state(objs, failing, t) ==
  LET s1 == LoadStateStep(NoObj, Buckets[1], objs, failing)
      s2 == LoadStateStep(s1, Buckets[2], objs, failing)
  IN IF s2 # NoObj THEN s2[1] ELSE [files |-> EmptyDict, last_updated |-> t]

\* ------------------------------------------------------------ listing
\* list_bucket_objects: the ClientError is caught and the empty result returned
list_bucket_objects(bucket, failing) ==
  IF bucket \in failing THEN EmptyDict ELSE files[bucket]

\* ------------------------------------------------------------ rebuild
\* mutant: the second test looks at the primary listing again
Locations_SameListing(key, p_files, s_files) ==
  (IF key \in DOMAIN p_files THEN <<"primary">> ELSE << >>)
  \o (IF key \in DOMAIN p_files THEN <<"secondary">> ELSE << >>)

Locations(key, p_files, s_files) ==
  (IF key \in DOMAIN p_files THEN <<"primary">> ELSE << >>)
  \o (IF key \in DOMAIN s_files THEN <<"secondary">> ELSE << >>)

\* mutant: the first comparison is not strict
SourceOf_NotStrict(p_time, s_time) ==
  IF p_time >= s_time THEN "primary"
  ELSE IF s_time > p_time THEN "secondary"
  ELSE "equal"

\* lines 91-97: a key missing from a listing has the time "", which is less
\* than every time
SourceOf(p_time, s_time) ==
  IF p_time > s_time THEN "primary"
  ELSE IF s_time > p_time THEN "secondary"
  ELSE "equal"

rebuild_files_state(p_files, s_files, t) ==
  [key \in (DOMAIN p_files) \cup (DOMAIN s_files) |->
     [last_synced |-> t,
      last_seen_in |-> Locations(key, p_files, s_files),
      source |-> SourceOf(GetTime(p_files, key), GetTime(s_files, key))]]

\* ------------------------------------------------------------ progress log
\* mutant: the secondary bucket's copy is read when the primary's cannot be
load_progress_log_FirstAvailable(objs, failed) ==
  IF ~failed /\ objs[PRIMARY_BUCKET] # NoObj THEN objs[PRIMARY_BUCKET][1]
  ELSE IF objs[SECONDARY_BUCKET] # NoObj THEN objs[SECONDARY_BUCKET][1]
  ELSE {}

\* load_progress_log reads the primary bucket only; any ClientError gives set()
load_progress_log(objs, failed) ==
  IF failed \/ objs[PRIMARY_BUCKET] = NoObj THEN {} ELSE objs[PRIMARY_BUCKET][1]

\* ------------------------------------------------------------ planning
NoAction == [op |-> "none", bucket |-> "none"]

\* lines 165-197: the S3 call decided for one key; bucket is the bucket a
\* delete removes the key from, or the bucket a copy reads the key from
\* mutant: the record is asked about the replica that still holds the key
WasSeenIn_SameReplica(st, key, r) ==
  key \in DOMAIN st.files /\ InList(Other(r), st.files[key].last_seen_in)

\* mutant: having a record at all counts as having been seen in the replica
WasSeenIn_AnyRecord(st, key, r) == key \in DOMAIN st.files

WasSeenIn(st, key, r) ==
  key \in DOMAIN st.files /\ InList(r, st.files[key].last_seen_in)

\* mutant: "exists in primary" is tested without "missing in secondary"
PlanKey_NoMissingTest(key, p_files, s_files, st) ==
  IF key \in DOMAIN p_files
  THEN IF WasSeenIn(st, key, "secondary")
       THEN [op |-> "delete", bucket |-> PRIMARY_BUCKET]
       ELSE [op |-> "copy", bucket |-> PRIMARY_BUCKET]
  ELSE IF key \in DOMAIN s_files
  THEN IF WasSeenIn(st, key, "primary")
       THEN [op |-> "delete", bucket |-> SECONDARY_BUCKET]
       ELSE [op |-> "copy", bucket |-> SECONDARY_BUCKET]
  ELSE NoAction

PlanKey(key, p_files, s_files, st) ==
  LET p_time == key \in DOMAIN p_files
      s_time == key \in DOMAIN s_files
  IN IF p_time /\ ~s_time
     THEN IF WasSeenIn(st, key, "secondary")
          THEN [op |-> "delete", bucket |-> PRIMARY_BUCKET]
          ELSE [op |-> "copy", bucket |-> PRIMARY_BUCKET]
     ELSE IF s_time /\ ~p_time
     THEN IF WasSeenIn(st, key, "primary")
          THEN [op |-> "delete", bucket |-> SECONDARY_BUCKET]
          ELSE [op |-> "copy", bucket |-> SECONDARY_BUCKET]
     ELSE NoAction

\* mutant: the copy is written to the bucket it reads from
ApplyOp_CopyInPlace(f, a, key, t) ==
  IF a.op = "delete"
  THEN [f EXCEPT ![a.bucket] = DictDel(@, key)]
  ELSE [f EXCEPT ![a.bucket] = DictPut(@, key, t)]

\* the effect of a successful S3 call on the buckets
ApplyOp(f, a, key, t) ==
  IF a.op = "delete"
  THEN [f EXCEPT ![a.bucket] = DictDel(@, key)]
  ELSE [f EXCEPT ![Other(a.bucket)] = DictPut(@, key, t)]

\* ------------------------------------------------------------ initial states
\* the listings a bucket can show: any subset of the keys
Listings(t) == UNION {[D -> {t}] : D \in SUBSET Keys}

\* the snapshots an earlier complete run can have left
InitSnapshots ==
  {[files |-> rebuild_files_state(pf, sf, 0), last_updated |-> 0] :
     pf \in Listings(1), sf \in Listings(1)}

\* what is observed of one run; reset when a run starts
NewRun ==
  [issued |-> << >>,          \* the copy and delete calls made, in order
   loadFailed |-> {},         \* buckets whose get_object failed in load_state
   listFailed |-> {},         \* buckets whose first listing failed
   finalListFailed |-> {},    \* buckets whose listing for the rebuild failed
   saved |-> {},              \* buckets whose put_object in save_state succeeded
   saveFailed |-> {},         \* buckets whose put_object in save_state failed
   acked |-> [r \in Replicas |-> {}],  \* keys of acknowledged progress log puts
   logFailed |-> FALSE,       \* get_object of the progress log failed, the log being there
   logDeleted |-> {}]         \* buckets whose delete_object of the progress log succeeded

NoBase == [files |-> [r \in Replicas |-> EmptyDict],
           stateObj |-> [r \in Replicas |-> NoObj]]

InitDurable ==
  /\ files \in [Replicas -> Listings(1)]
  /\ \/ stateObj = [r \in Replicas |-> NoObj]
     \/ \E snap \in InitSnapshots : stateObj = [r \in Replicas |-> Obj(snap)]
  /\ logObj = [r \in Replicas |-> NoObj]

InitProcess ==
  /\ pc = At("idle")
  /\ state = [files |-> EmptyDict, last_updated |-> 0]
  /\ completed_in_prior_run = {}
  /\ completed_this_run = {}
  /\ primary_files = EmptyDict
  /\ secondary_files = EmptyDict
  /\ todo = << >>
  /\ final_primary_files = EmptyDict
  /\ final_secondary_files = EmptyDict
  /\ runs = 0

InitHist(base) ==
  [run |-> NewRun,
   prev |-> "idle",      \* how the run before the current one ended
   ckptKill |-> FALSE,   \* a run was killed after a progress log put was acknowledged
   listFault |-> FALSE,  \* a listing before a loop failed, in this run or an earlier one
   deleted |-> {},       \* <<key, bucket>> of the deletes that succeeded in earlier runs
   base |-> base]        \* the buckets and snapshots the behaviour started from

Init ==
  /\ InitDurable
  /\ InitProcess
  /\ budget = MaxFaults
  /\ hist = InitHist(NoBase)

\* the S3 calls of one function that raise ClientError
FailSets == {F \in SUBSET Replicas : Cardinality(F) <= budget}
Outcomes == IF budget > 0 THEN {TRUE, FALSE} ELSE {TRUE}

NotRunning == pc.at \in {"idle", "done", "failed", "killed"}

\* the delete_object calls that succeeded, as <<key, bucket>>
DeletedKeys(issued) ==
  {<<issued[i].key, issued[i].bucket>> :
     i \in {j \in 1..Len(issued) : issued[j].op = "delete" /\ issued[j].ok}}

\* the memory of a process that is not running
NoLocals ==
  /\ state' = [files |-> EmptyDict, last_updated |-> 0]
  /\ completed_in_prior_run' = {}
  /\ completed_this_run' = {}
  /\ primary_files' = EmptyDict
  /\ secondary_files' = EmptyDict
  /\ todo' = << >>
  /\ final_primary_files' = EmptyDict
  /\ final_secondary_files' = EmptyDict

\* ------------------------------------------------------------ the run
\* the process is started (python s3_rep.py)
StartRun ==
  /\ NotRunning
  /\ runs < MaxRuns
  /\ runs' = runs + 1
  /\ pc' = At("start")
  /\ NoLocals
  /\ hist' = [hist EXCEPT !.run = NewRun,
                          !.prev = pc.at,
                          !.deleted = @ \cup DeletedKeys(hist.run.issued)]
  /\ UNCHANGED <<durable, budget>>

\* mutant: the set of this run starts empty
InitCompleted_Empty(prior) == {}

\* line 150: completed_this_run = set(completed_in_prior_run)
InitCompleted(prior) == prior

\* lines 143-161: load_state, load_progress_log, both listings, and the keys to
\* visit in sorted order; nothing is written
Discover ==
  /\ pc = At("start")
  /\ \E loadFailing \in FailSets, logOk \in BOOLEAN, listFailing \in FailSets :
       LET cost == Cardinality(loadFailing) + (IF logOk THEN 0 ELSE 1)
                   + Cardinality(listFailing)
       IN /\ cost <= budget
          \* a get_object of a missing object is a ClientError already
          /\ \A r \in loadFailing : stateObj[r] # NoObj
          /\ ~logOk => logObj[PRIMARY_BUCKET] # NoObj
          /\ budget' = budget - cost
          /\ state' = load_state(stateObj, loadFailing, now)
          /\ completed_in_prior_run' = load_progress_log(logObj, ~logOk)
          /\ completed_this_run' = InitCompleted(completed_in_prior_run')
          /\ primary_files' = list_bucket_objects(PRIMARY_BUCKET, listFailing)
          /\ secondary_files' = list_bucket_objects(SECONDARY_BUCKET, listFailing)
          /\ hist' = [hist EXCEPT !.run.loadFailed = loadFailing,
                                  !.run.logFailed = ~logOk,
                                  !.run.listFailed = listFailing,
                                  !.listFault = @ \/ listFailing # {}]
  /\ todo' = SortedSeq((DOMAIN primary_files') \cup (DOMAIN secondary_files')
                       \cup (DOMAIN state'.files))
  /\ pc' = At("loop")
  /\ UNCHANGED <<durable, final_primary_files, final_secondary_files, runs>>

Issue(a, key, ok) == [op |-> a.op, bucket |-> a.bucket, key |-> key, ok |-> ok]

\* lines 162-163: the key is in the completed set
SkipCompleted ==
  /\ pc = At("loop")
  /\ todo # << >>
  /\ Head(todo) \in completed_this_run
  /\ todo' = Tail(todo)
  /\ UNCHANGED <<durable, pc, state, completed_in_prior_run, completed_this_run,
                 primary_files, secondary_files, final_primary_files,
                 final_secondary_files, runs, budget, hist>>

\* lines 165-215 for a key no branch applies to: action_taken stays False
NoActionTaken ==
  /\ pc = At("loop")
  /\ todo # << >>
  /\ Head(todo) \notin completed_this_run
  /\ PlanKey(Head(todo), primary_files, secondary_files, state) = NoAction
  /\ todo' = Tail(todo)
  /\ UNCHANGED <<durable, pc, state, completed_in_prior_run, completed_this_run,
                 primary_files, secondary_files, final_primary_files,
                 final_secondary_files, runs, budget, hist>>

\* mutant: the error is reported and the loop goes on
OnClientError_Continue == At("loop")

\* lines 220-223: where a ClientError of the copy or delete leaves the process
OnClientError == At("failed")

\* mutant: the completed set is replaced by the key
AddCompleted_Replace(completed, key) == {key}

\* line 217: completed_this_run.add(key)
AddCompleted(completed, key) == completed \cup {key}

\* lines 171-197, 215-217 and 220-223: the copy or delete of the key
IssueAction ==
  /\ pc = At("loop")
  /\ todo # << >>
  /\ Head(todo) \notin completed_this_run
  /\ LET key == Head(todo)
         a == PlanKey(key, primary_files, secondary_files, state)
     IN /\ a # NoAction
        /\ \E ok \in Outcomes :
             /\ hist' = [hist EXCEPT !.run.issued = Append(@, Issue(a, key, ok))]
             /\ IF ok
                THEN /\ files' = ApplyOp(files, a, key, now)
                     /\ completed_this_run' = AddCompleted(completed_this_run, key)
                     /\ pc' = At("checkpoint")
                     /\ budget' = budget
                ELSE /\ pc' = OnClientError
                     /\ budget' = budget - 1
                     /\ UNCHANGED <<files, completed_this_run>>
  /\ UNCHANGED <<stateObj, logObj, state, completed_in_prior_run, primary_files,
                 secondary_files, todo, final_primary_files, final_secondary_files,
                 runs>>

\* save_progress_log (lines 121-129) with a put_object per bucket, each of which
\* may fail and is then only reported; then the loop goes on to the next key
\* mutant: the keys of the loop are written instead of the completed ones
PutLog_AllKeys(objs, keys, failing) ==
  [r \in Replicas |-> IF r \in failing THEN objs[r] ELSE Obj(Keys)]

PutLog(objs, keys, failing) ==
  [r \in Replicas |-> IF r \in failing THEN objs[r] ELSE Obj(keys)]

SaveProgressLog ==
  /\ pc = At("checkpoint")
  /\ \E failing \in FailSets :
       /\ logObj' = PutLog(logObj, completed_this_run, failing)
       /\ hist' = [hist EXCEPT !.run.acked =
                     [r \in Replicas |-> IF r \in failing THEN @[r]
                                         ELSE @[r] \cup completed_this_run]]
       /\ budget' = budget - Cardinality(failing)
  /\ pc' = At("loop")
  /\ todo' = Tail(todo)
  /\ UNCHANGED <<files, stateObj, state, completed_in_prior_run, completed_this_run,
                 primary_files, secondary_files, final_primary_files,
                 final_secondary_files, runs>>

\* save_state (lines 51-60): last_updated is stamped, then a put_object per
\* bucket, each of which may fail and is then only reported
PutSnapshot(objs, encoded, failing) ==
  [r \in Replicas |-> IF r \in failing THEN objs[r] ELSE Obj(encoded)]

\* where replicate_resilient goes after save_state returned (lines 229-232)
AfterSaveState(failing) == At("clear_log")

\* lines 225-229: the loop is over; list again, rebuild state["files"], save_state
RebuildAndSave ==
  /\ pc = At("loop")
  /\ todo = << >>
  /\ \E listFailing \in FailSets, failing \in FailSets :
       /\ Cardinality(listFailing) + Cardinality(failing) <= budget
       /\ budget' = budget - Cardinality(listFailing) - Cardinality(failing)
       /\ final_primary_files' = list_bucket_objects(PRIMARY_BUCKET, listFailing)
       /\ final_secondary_files' = list_bucket_objects(SECONDARY_BUCKET, listFailing)
       /\ state' = [files |-> rebuild_files_state(final_primary_files',
                                                  final_secondary_files', now),
                    last_updated |-> now]
       /\ stateObj' = PutSnapshot(stateObj, state', failing)
       /\ hist' = [hist EXCEPT !.run.finalListFailed = listFailing,
                               !.run.saved = Replicas \ failing,
                               !.run.saveFailed = failing]
       /\ pc' = AfterSaveState(failing)
  /\ UNCHANGED <<files, logObj, completed_in_prior_run, completed_this_run,
                 primary_files, secondary_files, todo, runs>>

\* delete_progress_log (lines 132-138): a delete_object per bucket, each of which
\* may fail and is then only reported; then replicate_resilient returns
DeleteLog(objs, failing) ==
  [r \in Replicas |-> IF r \in failing THEN objs[r] ELSE NoObj]

DeleteProgressLog ==
  /\ pc = At("clear_log")
  /\ \E failing \in FailSets :
       /\ logObj' = DeleteLog(logObj, failing)
       /\ budget' = budget - Cardinality(failing)
       /\ hist' = [hist EXCEPT !.run.logDeleted = Replicas \ failing]
  /\ pc' = At("done")
  /\ UNCHANGED <<files, stateObj, locals, runs>>

\* the process is killed between two S3 calls
Kill ==
  /\ ~NotRunning
  /\ pc' = At("killed")
  /\ NoLocals
  /\ hist' = [hist EXCEPT
       !.run = NewRun,
       !.ckptKill = @ \/ (\E r \in Replicas : hist.run.acked[r] # {}),
       !.deleted = @ \cup DeletedKeys(hist.run.issued)]
  /\ UNCHANGED <<durable, runs, budget>>

\* lines 235-238: replicate_resilient returns None from line 223 as from its last
\* line, __main__ prints "Replication finished successfully" and the interpreter
\* exits with status 0; a killed process reports nothing
Reported ==
  IF pc.at \in {"done", "failed"} THEN "success"
  ELSE IF pc.at = "killed" THEN "killed"
  ELSE "none"

Next ==
  \/ StartRun
  \/ Discover
  \/ SkipCompleted
  \/ NoActionTaken
  \/ IssueAction
  \/ SaveProgressLog
  \/ RebuildAndSave
  \/ DeleteProgressLog
  \/ Kill

Spec == Init /\ [][Next]_vars

\* a run, killed or not, and the runs after it, with no ClientError at all
InitResume ==
  /\ InitDurable
  /\ InitProcess
  /\ budget = 0
  /\ hist = InitHist([files |-> files, stateObj |-> stateObj])

SpecResume == InitResume /\ [][Next]_vars

\* ============================================================ properties
\* the listing the run obtained for a replica before the loop
Listing(r) == IF r = PRIMARY_BUCKET THEN primary_files ELSE secondary_files

\* the run is in or just after its loop: state is still the loaded snapshot
InLoop == pc.at \in {"loop", "checkpoint", "failed"}

Visited(k) == ~InList(k, todo)

OnlyListedIn(k, r) == k \in DOMAIN Listing(r) /\ k \notin DOMAIN Listing(Other(r))

RecordedIn(k, r) ==
  /\ k \in DOMAIN state.files
  /\ \E i \in 1..Len(state.files[k].last_seen_in) : state.files[k].last_seen_in[i] = r

IssuedFor(k) == {i \in 1..Len(hist.run.issued) : hist.run.issued[i].key = k}

OpIssued(op, k, r) ==
  \E i \in IssuedFor(k) : hist.run.issued[i].op = op /\ hist.run.issued[i].bucket = r

\* C1: a key that is not in the loaded progress log, is listed in exactly one
\* replica and is recorded as last seen in the other replica never gets a copy,
\* and once the loop has visited it a delete on the replica holding it was issued.
C1_DeletionPropagation ==
  InLoop =>
    \A k \in Keys, r \in Replicas :
      (k \notin completed_in_prior_run /\ OnlyListedIn(k, r) /\ RecordedIn(k, Other(r)))
      => /\ \A i \in IssuedFor(k) : hist.run.issued[i].op # "copy"
         /\ Visited(k) => OpIssued("delete", k, r)

\* both directions happened in one run
C1_Witness ==
  /\ pc = At("loop") /\ todo = << >>
  /\ \E k1, k2 \in Keys :
       /\ k1 \notin completed_in_prior_run /\ k2 \notin completed_in_prior_run
       /\ OnlyListedIn(k1, PRIMARY_BUCKET) /\ RecordedIn(k1, SECONDARY_BUCKET)
       /\ OnlyListedIn(k2, SECONDARY_BUCKET) /\ RecordedIn(k2, PRIMARY_BUCKET)
       /\ OpIssued("delete", k1, PRIMARY_BUCKET)
       /\ OpIssued("delete", k2, SECONDARY_BUCKET)
       /\ k1 \notin DOMAIN files[PRIMARY_BUCKET]
       /\ k2 \notin DOMAIN files[SECONDARY_BUCKET]

\* C2: a key that is not in the loaded progress log, is listed in exactly one
\* replica and has no record, or a record that does not name the other replica,
\* never gets a delete, and once the loop has visited it a copy from the replica
\* holding it was issued.
C2_CreationPropagation ==
  InLoop =>
    \A k \in Keys, r \in Replicas :
      (k \notin completed_in_prior_run /\ OnlyListedIn(k, r) /\ ~RecordedIn(k, Other(r)))
      => /\ \A i \in IssuedFor(k) : hist.run.issued[i].op # "delete"
         /\ Visited(k) => OpIssued("copy", k, r)

\* a key without a record and a key with a one-sided record, both copied
C2_Witness ==
  /\ pc = At("loop") /\ todo = << >>
  /\ \E k1, k2 \in Keys :
       /\ k1 \notin completed_in_prior_run /\ k2 \notin completed_in_prior_run
       /\ OnlyListedIn(k1, PRIMARY_BUCKET) /\ k1 \notin DOMAIN state.files
       /\ OnlyListedIn(k2, SECONDARY_BUCKET) /\ RecordedIn(k2, SECONDARY_BUCKET)
       /\ OpIssued("copy", k1, PRIMARY_BUCKET)
       /\ OpIssued("copy", k2, SECONDARY_BUCKET)
       /\ k1 \in DOMAIN files[SECONDARY_BUCKET]
       /\ k2 \in DOMAIN files[PRIMARY_BUCKET]

\* C3: a key listed in both replicas, or in neither, gets no copy and no delete,
\* whatever its record says.
C3_NoOpStability ==
  InLoop =>
    \A k \in Keys :
      ((k \in DOMAIN primary_files) <=> (k \in DOMAIN secondary_files))
      => IssuedFor(k) = {}

\* the loop went over a key listed in both with a one-sided record and over a key
\* known only from the snapshot, while the bucket contents stayed as they were
C3_Witness ==
  /\ pc = At("loop") /\ todo = << >>
  /\ hist.run.issued = << >>
  /\ \E k1, k2 \in Keys :
       /\ k1 \in DOMAIN primary_files /\ k1 \in DOMAIN secondary_files
       /\ RecordedIn(k1, PRIMARY_BUCKET) /\ ~RecordedIn(k1, SECONDARY_BUCKET)
       /\ k2 \notin DOMAIN primary_files /\ k2 \notin DOMAIN secondary_files
       /\ k2 \in DOMAIN state.files

\* ------------------------------------------------------------ resumption
\* One uninterrupted, failure-free run of the loop (lines 161-218) on buckets f:
\* the keys ks in order, planned from the listings and the snapshot the run loaded.
RECURSIVE RunLoop(_, _, _, _, _)
RunLoop(f, ks, p_files, s_files, st) ==
  IF ks = << >> THEN f
  ELSE LET a == PlanKey(Head(ks), p_files, s_files, st)
       IN RunLoop(IF a = NoAction THEN f ELSE ApplyOp(f, a, Head(ks), 0),
                  Tail(ks), p_files, s_files, st)

\* the buckets a single uninterrupted run leaves when started from the state the
\* behaviour started from (there the progress log is absent)
UninterruptedFiles ==
  LET st == load_state(hist.base.stateObj, {}, 0)
      pf == hist.base.files[PRIMARY_BUCKET]
      sf == hist.base.files[SECONDARY_BUCKET]
  IN RunLoop(hist.base.files,
             SortedSeq((DOMAIN pf) \cup (DOMAIN sf) \cup (DOMAIN st.files)),
             pf, sf, st)

\* and the files map of the snapshot it saves
UninterruptedSnapshot ==
  rebuild_files_state(UninterruptedFiles[PRIMARY_BUCKET],
                      UninterruptedFiles[SECONDARY_BUCKET], 0)

SameRecords(f, g) ==
  /\ DOMAIN f = DOMAIN g
  /\ \A k \in DOMAIN f : f[k].last_seen_in = g[k].last_seen_in

\* C4: with no ClientError and no other writer, a run that completes leaves the
\* user keys of both buckets and the files map of both snapshot copies (keys and
\* last_seen_in) as one uninterrupted run from the initial state leaves them,
\* after however many runs were killed before it, at whatever point.
C4_IdempotentResumption ==
  pc = At("done") =>
    \A r \in Replicas :
      /\ DOMAIN files[r] = DOMAIN UninterruptedFiles[r]
      /\ stateObj[r] # NoObj
      /\ SameRecords(stateObj[r][1].files, UninterruptedSnapshot)

\* a run was killed after a checkpoint was written, and the run resuming it
\* skipped the checkpointed key, acted on another key and completed
C4_Witness ==
  /\ pc = At("done")
  /\ hist.prev = "killed"
  /\ hist.ckptKill
  /\ completed_in_prior_run # {}
  /\ Len(hist.run.issued) > 0
  /\ \A i \in 1..Len(hist.run.issued) : hist.run.issued[i].key \notin completed_in_prior_run

\* the run resumes a run that was killed or that stopped on a failed action
Resuming == hist.prev \in {"killed", "failed"}

LoopOver == pc = At("loop") /\ todo = << >>

InOneReplicaOnly(k) ==
  (k \in DOMAIN files[PRIMARY_BUCKET]) # (k \in DOMAIN files[SECONDARY_BUCKET])

\* C5 (1): no delete that succeeded in an earlier run is issued again
C5_NoReplayedDelete ==
  \A i \in 1..Len(hist.run.issued) :
    hist.run.issued[i].op = "delete"
    => <<hist.run.issued[i].key, hist.run.issued[i].bucket>> \notin hist.deleted

\* C5 (2): when the loop of a resuming run is over, a key no call was issued for,
\* whose presence is therefore as it was when the run started, is not in exactly
\* one replica
C5_NoMissedAction ==
  (Resuming /\ LoopOver) =>
    \A k \in Keys : IssuedFor(k) = {} => ~InOneReplicaOnly(k)

\* C5: a resumed run replays no delete that succeeded and misses no pending key
C5_ResumeReplaysNothingMissesNothing == C5_NoReplayedDelete /\ C5_NoMissedAction

\* C5 (2) holds of the runs before which no listing failed
C5_NoMissedActionListed ==
  (Resuming /\ LoopOver /\ ~hist.listFault) =>
    \A k \in Keys : IssuedFor(k) = {} => ~InOneReplicaOnly(k)

\* C6: a run one of whose listings before the loop failed issues no copy and no
\* delete (it aborts before planning)
C6_ListingFailureAborts ==
  hist.run.listFailed # {} => hist.run.issued = << >>

\* ------------------------------------------------------------ rebuild
FinalListing(r) == IF r = PRIMARY_BUCKET THEN final_primary_files ELSE final_secondary_files

Saved == pc.at \in {"clear_log", "done"}

\* C7: once the run has rebuilt and saved, every snapshot copy it wrote has a
\* record for exactly the keys of the two listings taken after the loop, and
\* last_seen_in names exactly the replicas whose listing holds the key, primary
\* first; listings that were obtained are the bucket contents.
C7_RebuildListingDerived ==
  Saved =>
    /\ \A r \in hist.run.saved :
         /\ stateObj[r] # NoObj
         /\ LET recs == stateObj[r][1].files
            IN /\ DOMAIN recs = (DOMAIN final_primary_files) \cup (DOMAIN final_secondary_files)
               /\ \A k \in DOMAIN recs :
                    /\ \A q \in Replicas :
                         (\E i \in 1..Len(recs[k].last_seen_in) : recs[k].last_seen_in[i] = q)
                         <=> k \in DOMAIN FinalListing(q)
                    /\ Len(recs[k].last_seen_in) =
                         Cardinality({q \in Replicas : k \in DOMAIN FinalListing(q)})
    /\ \A r \in Replicas \ hist.run.finalListFailed : FinalListing(r) = files[r]

\* the run deleted a key, which has no record any more, and copied another, which
\* is recorded in both replicas, and both snapshot copies were written
C7_Witness ==
  /\ pc = At("done")
  /\ hist.run.saved = Replicas
  /\ \E k1, k2 \in Keys :
       /\ \E r \in Replicas : OpIssued("delete", k1, r)
       /\ k1 \notin DOMAIN stateObj[PRIMARY_BUCKET][1].files
       /\ \E r \in Replicas : OpIssued("copy", k2, r)
       /\ k2 \in DOMAIN stateObj[SECONDARY_BUCKET][1].files
       /\ stateObj[SECONDARY_BUCKET][1].files[k2].last_seen_in = <<"primary", "secondary">>

\* ------------------------------------------------------------ load_state
\* the snapshot copy of r exists and its get_object did not fail
Readable(r) == stateObj[r] # NoObj /\ r \notin hist.run.loadFailed

\* C8: the snapshot the run works from (no snapshot is written before the loop is
\* over) is the readable copy with the greatest last_updated, the only readable
\* copy unchanged, or a fresh snapshot with an empty files map.
C8_LoadStateRedundancy ==
  InLoop =>
    /\ (\A r \in Replicas : Readable(r))
         => /\ \E r \in Replicas : state = stateObj[r][1]
            /\ \A r \in Replicas : state.last_updated >= stateObj[r][1].last_updated
    /\ \A r \in Replicas :
         (Readable(r) /\ ~Readable(Other(r))) => state = stateObj[r][1]
    /\ (\A r \in Replicas : ~Readable(r)) => state.files = EmptyDict

\* both copies were read, the secondary's is the newer one and was taken
C8_Witness ==
  /\ InLoop
  /\ \A r \in Replicas : Readable(r)
  /\ stateObj[SECONDARY_BUCKET][1].last_updated > stateObj[PRIMARY_BUCKET][1].last_updated
  /\ state = stateObj[SECONDARY_BUCKET][1]

\* the secondary's copy could not be read and the primary's was taken as it is
C8_WitnessOneCopy ==
  /\ InLoop
  /\ Readable(PRIMARY_BUCKET)
  /\ stateObj[SECONDARY_BUCKET] # NoObj /\ SECONDARY_BUCKET \in hist.run.loadFailed
  /\ stateObj[SECONDARY_BUCKET][1].last_updated > stateObj[PRIMARY_BUCKET][1].last_updated
  /\ state = stateObj[PRIMARY_BUCKET][1]

\* ------------------------------------------------------------ save_state
\* the first half of C9: a replica whose put succeeded holds the new snapshot,
\* whatever happened to the other put
C9_OneFailureTolerated ==
  Saved => \A r \in hist.run.saved : stateObj[r] = Obj(state)

\* C9: a failed put to one replica leaves the new snapshot in the other and the
\* run goes on; a run whose snapshot was written to neither replica does not end
\* as a successful run
C9_SaveFailureHandling ==
  /\ C9_OneFailureTolerated
  /\ pc = At("done") => hist.run.saveFailed # Replicas

\* ------------------------------------------------------------ fail-fast
\* C10: a copy or delete that failed is the last call the run issues, the run has
\* then stopped, every key whose checkpoint a replica acknowledged is in the
\* progress log of that replica, and the run has deleted no progress log.
C10_FailFast ==
  /\ \A i \in 1..Len(hist.run.issued) :
       ~hist.run.issued[i].ok => (i = Len(hist.run.issued) /\ pc = At("failed"))
  /\ pc = At("failed") =>
       /\ hist.run.logDeleted = {}
       /\ \A r \in Replicas :
            hist.run.acked[r] # {}
            => (logObj[r] # NoObj /\ hist.run.acked[r] \subseteq logObj[r][1])
       /\ completed_in_prior_run # {}
            => (logObj[PRIMARY_BUCKET] # NoObj
                /\ completed_in_prior_run \subseteq logObj[PRIMARY_BUCKET][1])

\* the first key was handled and checkpointed, the call for the second failed
C10_Witness ==
  /\ pc = At("failed")
  /\ Len(hist.run.issued) = 2
  /\ hist.run.issued[1].ok /\ ~hist.run.issued[2].ok
  /\ \A r \in Replicas : logObj[r] = Obj({hist.run.issued[1].key})

\* the call for the first key failed while the second key is in one replica only
C10_WitnessPending ==
  /\ pc = At("failed")
  /\ Len(hist.run.issued) = 1
  /\ Len(todo) = 2
  /\ PlanKey(todo[2], primary_files, secondary_files, state) # NoAction

\* ------------------------------------------------------------ reporting
\* C11: a run in which a copy or delete failed is not reported as having finished
\* successfully
C11_FailedRunReportsFailure ==
  (\E i \in 1..Len(hist.run.issued) : ~hist.run.issued[i].ok) => Reported # "success"

\* ------------------------------------------------------------ completion
\* C12: once a run has completed, the progress log is absent from both replicas,
\* so that a load returns the empty set, and both replicas hold the snapshot the
\* run rebuilt
C12_ClearedAndSaved ==
  pc = At("done") =>
    /\ \A r \in Replicas : logObj[r] = NoObj /\ stateObj[r] = Obj(state)
    /\ load_progress_log(logObj, FALSE) = {}

\* the same for the completed runs in which no put of the snapshot and no delete
\* of the log failed
C12_ClearedWhenNothingFails ==
  (/\ pc = At("done")
   /\ hist.run.saveFailed = {}
   /\ hist.run.logDeleted = Replicas) =>
    /\ \A r \in Replicas : logObj[r] = NoObj /\ stateObj[r] = Obj(state)
    /\ load_progress_log(logObj, FALSE) = {}

\* ------------------------------------------------------------ convergence
\* the snapshot of the initial state has a record for the key
BaseRecorded(k) ==
  /\ hist.base.stateObj[PRIMARY_BUCKET] # NoObj
  /\ k \in DOMAIN hist.base.stateObj[PRIMARY_BUCKET][1].files

BaseRecordedInBoth(k) ==
  /\ BaseRecorded(k)
  /\ hist.base.stateObj[PRIMARY_BUCKET][1].files[k].last_seen_in
       = <<PRIMARY_BUCKET, SECONDARY_BUCKET>>

BaseOnlyIn(k, r) ==
  k \in DOMAIN hist.base.files[r] /\ k \notin DOMAIN hist.base.files[Other(r)]

\* C13: a run that started from an empty progress log and in which nothing failed
\* ends with the same user keys in both buckets and, in both snapshot copies, a
\* record for exactly those keys, each last seen in [primary, secondary]; in the
\* first run a key that was in one bucket only with no record is in both buckets,
\* and a key that was in one bucket only and recorded in both is in neither and
\* has no record.
C13_Convergence ==
  (pc = At("done") /\ completed_in_prior_run = {}) =>
    /\ DOMAIN files[PRIMARY_BUCKET] = DOMAIN files[SECONDARY_BUCKET]
    /\ \A r \in Replicas :
         /\ stateObj[r] # NoObj
         /\ DOMAIN stateObj[r][1].files = DOMAIN files[PRIMARY_BUCKET]
         /\ \A k \in DOMAIN stateObj[r][1].files :
              stateObj[r][1].files[k].last_seen_in = <<PRIMARY_BUCKET, SECONDARY_BUCKET>>
    /\ hist.prev = "idle" =>
         \A k \in Keys, r \in Replicas :
           /\ (BaseOnlyIn(k, r) /\ ~BaseRecorded(k)) =>
                \A q \in Replicas : k \in DOMAIN files[q]
           /\ (BaseOnlyIn(k, r) /\ BaseRecordedInBoth(k)) =>
                \A q \in Replicas :
                  k \notin DOMAIN files[q] /\ k \notin DOMAIN stateObj[q][1].files

\* a first run completed that found one key in one bucket with no record and
\* another key in one bucket recorded in both
C13_Witness ==
  /\ pc = At("done")
  /\ completed_in_prior_run = {}
  /\ hist.prev = "idle"
  /\ \E k \in Keys, r \in Replicas :
       BaseOnlyIn(k, r) /\ ~BaseRecorded(k) /\ OpIssued("copy", k, r)
  /\ \E k \in Keys, r \in Replicas :
       BaseOnlyIn(k, r) /\ BaseRecordedInBoth(k) /\ OpIssued("delete", k, r)

\* ------------------------------------------------------------ rebuild_files_state alone
MaxTime == 2

\* the listings list_bucket_objects can return: keys with their LastModified
TimedListings == UNION {[D -> 1..MaxTime] : D \in SUBSET Keys}

InitRebuild ==
  /\ files \in [Replicas -> TimedListings]
  /\ stateObj = [r \in Replicas |-> NoObj]
  /\ logObj = [r \in Replicas |-> NoObj]
  /\ pc = At("rebuild")
  /\ state = [files |-> EmptyDict, last_updated |-> 0]
  /\ completed_in_prior_run = {}
  /\ completed_this_run = {}
  /\ primary_files = EmptyDict
  /\ secondary_files = EmptyDict
  /\ todo = << >>
  /\ final_primary_files = EmptyDict
  /\ final_secondary_files = EmptyDict
  /\ runs = MaxTime
  /\ budget = 0
  /\ hist = InitHist(NoBase)

\* lines 225-229: the two listings and the call of rebuild_files_state
RebuildCall ==
  /\ pc = At("rebuild")
  /\ final_primary_files' = list_bucket_objects(PRIMARY_BUCKET, {})
  /\ final_secondary_files' = list_bucket_objects(SECONDARY_BUCKET, {})
  /\ state' = [files |-> rebuild_files_state(final_primary_files', final_secondary_files', now),
               last_updated |-> now]
  /\ pc' = At("rebuilt")
  /\ UNCHANGED <<durable, completed_in_prior_run, completed_this_run, primary_files,
                 secondary_files, todo, runs, budget, hist>>

NextRebuild == RebuildCall

SpecRebuild == InitRebuild /\ [][NextRebuild]_vars

\* C14: the source of a record is "primary" exactly when the primary listing has
\* the key and the secondary listing has it not or has it with a strictly smaller
\* time, "secondary" in the mirrored case, and "equal" exactly when both listings
\* have the key with the same time.
C14_Source ==
  pc = At("rebuilt") =>
    \A k \in DOMAIN state.files :
      LET inP == k \in DOMAIN final_primary_files
          inS == k \in DOMAIN final_secondary_files
          src == state.files[k].source
      IN /\ (inP /\ ~inS) => src = "primary"
         /\ (inS /\ ~inP) => src = "secondary"
         /\ (inP /\ inS) =>
              /\ final_primary_files[k] > final_secondary_files[k] => src = "primary"
              /\ final_secondary_files[k] > final_primary_files[k] => src = "secondary"
              /\ final_primary_files[k] = final_secondary_files[k] => src = "equal"

\* one key is in one listing only and has that replica as its source, the other
\* key is in both listings and has the replica with the later time as its source
C14_Witness ==
  /\ pc = At("rebuilt")
  /\ \E k \in DOMAIN state.files, r \in Replicas :
       /\ k \in DOMAIN FinalListing(r)
       /\ k \notin DOMAIN FinalListing(Other(r))
       /\ state.files[k].source = r
  /\ \E k \in DOMAIN state.files, r \in Replicas :
       /\ k \in DOMAIN FinalListing(r)
       /\ k \in DOMAIN FinalListing(Other(r))
       /\ FinalListing(r)[k] > FinalListing(Other(r))[k]
       /\ state.files[k].source = r

\* C14 as stated: "primary" and "secondary" only for a key with a time in both
\* listings, and "equal" for a tie and for a key missing from one listing
C14_SourceAsStated ==
  pc = At("rebuilt") =>
    \A k \in DOMAIN state.files :
      LET inP == k \in DOMAIN final_primary_files
          inS == k \in DOMAIN final_secondary_files
          src == state.files[k].source
      IN /\ src = "primary" =>
              inP /\ inS /\ final_primary_files[k] > final_secondary_files[k]
         /\ src = "secondary" =>
              inP /\ inS /\ final_secondary_files[k] > final_primary_files[k]
         /\ (~inP \/ ~inS) => src = "equal"
         /\ (inP /\ inS /\ final_primary_files[k] = final_secondary_files[k]) => src = "equal"

\* ------------------------------------------------------------ checkpoints
\* the keys whose copy or delete succeeded in the current run
AppliedKeys ==
  {hist.run.issued[i].key : i \in {j \in 1..Len(hist.run.issued) : hist.run.issued[j].ok}}

\* the key is in the progress log some bucket holds
Persisted(k) == \E r \in Replicas : logObj[r] # NoObj /\ k \in logObj[r][1]

\* C15: while the run is in its loop or past it with the log not yet cleared, at
\* most one key has had its action applied without being in a progress log that
\* some bucket holds: the next action is not issued before the checkpoint of the
\* last one was acknowledged by a bucket
C15_OneActionPerCheckpoint ==
  pc.at \in {"loop", "checkpoint", "failed", "clear_log"} =>
    Cardinality({k \in AppliedKeys : ~Persisted(k)}) <= 1

\* the same for the runs in which every save_progress_log reached a bucket
C15_WhenCheckpointsAcked ==
  (/\ pc.at \in {"loop", "checkpoint", "failed", "clear_log"}
   /\ \A k \in AppliedKeys :
        (pc.at = "checkpoint" /\ k = Head(todo))
        \/ \E r \in Replicas : k \in hist.run.acked[r]) =>
    Cardinality({k \in AppliedKeys : ~Persisted(k)}) <= 1

\* the process is between its reads and the clearing of the log
LogLive == pc.at \in {"loop", "checkpoint", "failed", "clear_log"}

\* the completed set is the loaded log and the keys whose action succeeded in
\* this run, and a log this run has put in a bucket lies between the two
C16_Content ==
  LogLive =>
    /\ completed_this_run = completed_in_prior_run \cup AppliedKeys
    /\ \A k \in Keys :
         (k \notin completed_in_prior_run /\ ~(\E i \in IssuedFor(k) : hist.run.issued[i].ok))
           => k \notin completed_this_run
    /\ \A r \in Replicas :
         hist.run.acked[r] # {} =>
           /\ logObj[r] # NoObj
           /\ completed_in_prior_run \subseteq logObj[r][1]
           /\ logObj[r][1] \subseteq completed_this_run

\* a step of the run keeps the loaded log, only adds to the completed set and
\* only adds to a log this run has put in a bucket
C16_Growth ==
  (LogLive /\ LogLive') =>
    /\ completed_in_prior_run' = completed_in_prior_run
    /\ completed_this_run \subseteq completed_this_run'
    /\ \A r \in Replicas :
         hist.run.acked[r] # {} =>
           logObj'[r] # NoObj /\ logObj[r][1] \subseteq logObj'[r][1]

\* C16: a key is in the completed set only if it was in the loaded progress log
\* or its copy or delete succeeded in this run (keys with no action and keys
\* whose action failed are never added), and the completed set and every progress
\* log the run puts only grow and always contain the loaded log.
C16_CheckpointContent == [](C16_Content) /\ [][C16_Growth]_vars

\* a resumed run with a loaded log has applied a further key and checkpointed it
\* on the primary bucket
C16_Witness ==
  /\ pc = At("loop")
  /\ completed_in_prior_run # {}
  /\ AppliedKeys # {}
  /\ hist.run.acked[PRIMARY_BUCKET] = completed_this_run
  /\ completed_this_run = Keys

\* ------------------------------------------------------------ clearing the log
\* C17: the progress log is deleted from a bucket only in a run in which every
\* copy and delete succeeded, both listings after the loop were obtained and the
\* rebuilt snapshot was put in at least one bucket
C17_ClearedOnlyAfterSuccess ==
  hist.run.logDeleted # {} =>
    /\ \A i \in 1..Len(hist.run.issued) : hist.run.issued[i].ok
    /\ hist.run.finalListFailed = {}
    /\ hist.run.saved # {}

\* the part of it that the loop's return gives: no delete of the log in a run
\* with a failed copy or delete, whose log stays as the loop left it
C17_NotAfterFailedAction ==
  /\ hist.run.logDeleted # {} => \A i \in 1..Len(hist.run.issued) : hist.run.issued[i].ok
  /\ pc = At("failed") =>
       \A r \in Replicas : hist.run.acked[r] # {} => logObj[r] # NoObj

\* ------------------------------------------------------------ loading the log
\* the run has read the progress log and has put none yet: the logs in the
\* buckets are the ones load_progress_log found
LogAsLoaded == InLoop /\ \A r \in Replicas : hist.run.acked[r] = {}

PrimaryLogRead == logObj[PRIMARY_BUCKET] # NoObj /\ ~hist.run.logFailed

C19_LoadedKeysSkipped ==
  \A i \in 1..Len(hist.run.issued) : hist.run.issued[i].key \notin completed_in_prior_run

\* the loop has passed a key of the loaded log for which the listings and the
\* snapshot ask for a copy or a delete, and has issued nothing for it
C19_Witness ==
  /\ InLoop
  /\ \E k \in completed_in_prior_run :
       /\ Visited(k)
       /\ PlanKey(k, primary_files, secondary_files, state) # NoAction
       /\ IssuedFor(k) = {}

\* ------------------------------------------------------------ the snapshot of a failed run
FailedAction == \E i \in 1..Len(hist.run.issued) : ~hist.run.issued[i].ok

\* a run with a failed copy or delete lists nothing after its loop, rebuilds
\* nothing and puts no snapshot, and load_state on the buckets as they are gives
\* the snapshot the run planned from
C20_NoRebuildNoSave ==
  FailedAction =>
    /\ hist.run.saved = {} /\ hist.run.saveFailed = {}
    /\ final_primary_files = EmptyDict /\ final_secondary_files = EmptyDict
    /\ load_state(stateObj, hist.run.loadFailed, now) = state

\* no step that starts a run, belongs to its loop or stops it writes a snapshot
C20_SnapshotKept ==
  pc'.at \in {"start", "loop", "checkpoint", "failed"} => stateObj' = stateObj

\* C20: when the run stops on a failed copy or delete, the snapshot object of
\* both buckets is as it was when the run started: no step up to the stop writes
\* it, nothing is rebuilt and save_state is not called, so the resuming run loads
\* the snapshot the failed run planned from.
C20_SnapshotUntouchedOnFailure == [](C20_NoRebuildNoSave) /\ [][C20_SnapshotKept]_vars

\* a run planned from a stored snapshot, applied and checkpointed one key and
\* stopped on the failed action of the next
C20_Witness ==
  /\ pc = At("failed")
  /\ FailedAction
  /\ AppliedKeys # {}
  /\ \A r \in Replicas : stateObj[r] # NoObj /\ stateObj[r][1] = state
  /\ state.files # EmptyDict

====
